---- MODULE Spec2Model ----
(***************************************************************************)
(* Sorting-algorithm visualizer: the instrumented array access layer       *)
(* (src/lib/helpers.ts), the six generator-based algorithm units           *)
(* (src/lib/algorithms.ts, lines 13-257), the sorting worker that          *)
(* schedules one unit (src/lib/algorithms.ts, lines 443-560) and the       *)
(* playback controller that drives the worker (src/lib/playback.ts).       *)
(*                                                                         *)
(* A generator is modelled by its suspended call stack: a sequence of      *)
(* frames (innermost first), each frame a record holding the function      *)
(* name, the resumption point pc and the function's locals.  One call of   *)
(* generator.next() is GenNext: it runs blocks of the innermost frame      *)
(* until a yield is reached or the outermost function returns.             *)
(* Array indices are the source's 0-based indices; the TLA+ sequence       *)
(* holding the array is accessed at index + 1.                             *)
(***************************************************************************)
EXTENDS Integers, Sequences, FiniteSets, TLC

\* ------------------------------------------------------------------ bounds
MaxLen == 4
MaxVal == 3
MaxTimers == 2

\* All arrays of length 0..MaxLen over the values 1..MaxVal.
Arrays == UNION {[1..n -> 1..MaxVal] : n \in 0..MaxLen}

\* The value JavaScript yields for a slot that was never written.
Undefined == -1

\* ----------------------------------------------------- algorithm registry
algorithms ==
    {"Bubble Sort", "Insertion Sort", "Selection Sort",
     "Quick Sort", "Merge Sort", "Heap Sort"}

UnknownAlgorithm == "Bogo Sort"

\* The generator function registered under each name.
sortFn(name) ==
    CASE name = "Bubble Sort" -> "bubbleSort"
      [] name = "Insertion Sort" -> "insertionSort"
      [] name = "Selection Sort" -> "selectionSort"
      [] name = "Quick Sort" -> "quickSort"
      [] name = "Merge Sort" -> "mergeSort"
      [] name = "Heap Sort" -> "heapSort"

\* --------------------------------------------------------- array accesses
\* arr[i] of JavaScript: undefined outside 0..length-1.
At(a, i) == IF i >= 0 /\ i < Len(a) THEN a[i + 1] ELSE Undefined

\* arr[i] = v of JavaScript: an index at or past the end grows the array
\* (holes read as undefined); a negative index adds a property and leaves
\* the elements alone.
Put(a, i, v) ==
    IF i >= 0 /\ i < Len(a) THEN [a EXCEPT ![i + 1] = v]
    ELSE IF i >= Len(a)
         THEN [k \in 1..(i + 1) |->
                  IF k <= Len(a) THEN a[k] ELSE IF k = i + 1 THEN v ELSE Undefined]
         ELSE a

\* An element may carry a marker of the position it had in the input: the
\* element tag * TagBase + value stands for an object whose valueOf() is
\* value.  A plain number is its own value (marker 0).
TagBase == MaxVal + 1

\* The number the relational operators of JavaScript compare an element as.
ValueOf(x) == x % TagBase

TagOf(x) == x \div TagBase

\* v1 < v2 of JavaScript: false when either side is undefined.
Lt(v1, v2) == v1 # Undefined /\ v2 # Undefined /\ ValueOf(v1) < ValueOf(v2)

\* Mutant: the greater-than arm is lost, v1 < v2 ? -1 : 0.
Cmp_NoGreater(v1, v2) == IF Lt(v1, v2) THEN -1 ELSE 0

\* v1 < v2 ? -1 : v1 > v2 ? 1 : 0, where every comparison with undefined is
\* false.
Cmp(v1, v2) == IF Lt(v1, v2) THEN -1 ELSE IF Lt(v2, v1) THEN 1 ELSE 0

\* -------------------------------------------------------- machine states
\* The state a running generator acts on:
\*   stk      the generator's frames, innermost first
\*   aux      merge sort's auxiliary buffer
\*   arr      the array the helpers close over
\*   eventId  the worker's event counter
\*   out      the messages posted while the generator ran
\*   ret      the value of the last return
\*   st       "run", "yield" (suspended) or "done" (exhausted)

\* Mutant: the counter is incremented before it is read, id: ++eventId.
emit_PreIncrement(s, event) ==
    [s EXCEPT !.out = Append(@, [type |-> "event",
                                 payload |-> [id |-> s.eventId + 1] @@ event]),
              !.eventId = @ + 1]

\* emit of the worker: the event gets the next id and is posted.
emit(s, event) ==
    [s EXCEPT !.out = Append(@, [type |-> "event",
                                 payload |-> [id |-> s.eventId] @@ event]),
              !.eventId = @ + 1]

h_compare(s, i, j) ==
    emit(s, [type |-> "compare", i |-> i, j |-> j,
             result |-> Cmp(At(s.arr, i), At(s.arr, j))])

\* Mutant: the values compared are read from the array at the indices.
h_compareValues_ReadsArray(s, v1, v2, i1, i2) ==
    emit(s, [type |-> "compare", i |-> i1, j |-> i2,
             result |-> Cmp(At(s.arr, i1), At(s.arr, i2))])

h_compareValues(s, v1, v2, i1, i2) ==
    emit(s, [type |-> "compare", i |-> i1, j |-> i2, result |-> Cmp(v1, v2)])

\* Mutant: a swap without a temporary, arr[i] = arr[j]; arr[j] = arr[i].
h_swap_NoTemp(s, i, j) ==
    emit([s EXCEPT !.arr = Put(Put(s.arr, i, At(s.arr, j)), j, At(s.arr, j))],
         [type |-> "swap", i |-> i, j |-> j])

h_swap(s, i, j) ==
    emit([s EXCEPT !.arr = Put(Put(s.arr, i, At(s.arr, j)), j, At(s.arr, i))],
         [type |-> "swap", i |-> i, j |-> j])

\* Mutant: a read that emits nothing.
h_read_Silent(s, i) == s

h_read(s, i) ==
    emit(s, [type |-> "read", index |-> i, value |-> At(s.arr, i)])

\* Mutant: the event carries the slot's value from before the write.
h_write_StaleValue(s, i, value) ==
    emit([s EXCEPT !.arr = Put(s.arr, i, value)],
         [type |-> "write", index |-> i, value |-> At(s.arr, i)])

h_write(s, i, value) ==
    emit([s EXCEPT !.arr = Put(s.arr, i, value)],
         [type |-> "write", index |-> i, value |-> value])

h_pivot(s, i) == emit(s, [type |-> "pivot", index |-> i])

h_partition(s, lo, hi) == emit(s, [type |-> "partition", lo |-> lo, hi |-> hi])

h_range(s, lo, hi, label) ==
    emit(s, [type |-> "range", lo |-> lo, hi |-> hi, label |-> label])

h_merge(s, lo, mid, hi) ==
    emit(s, [type |-> "merge", lo |-> lo, mid |-> mid, hi |-> hi])

\* ------------------------------------------------------ frame operations
Top(s) == s.stk[1]

\* Continue in the same function with the frame f.
Goto(s, f) == [s EXCEPT !.stk[1] = f]

\* yield: suspend; the generator resumes in frame f.
Yield(s, f) == [s EXCEPT !.stk[1] = f, !.st = "yield"]

\* yield* callee: the caller's frame f waits below the callee's frame.
Call(s, f, callee) == [s EXCEPT !.stk = <<callee, f>> \o Tail(@)]

\* return v: pop the frame; the outermost return exhausts the generator.
Return(s, v) ==
    IF Len(s.stk) = 1
    THEN [s EXCEPT !.stk = <<>>, !.ret = v, !.st = "done"]
    ELSE [s EXCEPT !.stk = Tail(@), !.ret = v]

Entry(fn) == [fn |-> fn, pc |-> "entry"]

\* The result carried by the compare event emitted last.
Result(s) == s.out[Len(s.out)].payload.result

\* ------------------------------------------------------------ Bubble Sort
\* Mutant: the outer loop ends after a pass that swapped nothing.
bubbleSort_EarlyExit(s) ==
    LET f == Top(s) IN
    CASE f.pc = "entry" ->
           Goto(s, [fn |-> "bubbleSort", pc |-> "outer",
                    n |-> Len(s.arr), i |-> 0, j |-> 0, swapped |-> TRUE])
      [] f.pc = "outer" ->
           IF f.i < f.n - 1 /\ f.swapped
           THEN Goto(h_range(s, 0, f.n - f.i - 1, "unsorted"),
                     [f EXCEPT !.pc = "inner", !.j = 0, !.swapped = FALSE])
           ELSE Return(s, Undefined)
      [] f.pc = "inner" ->
           IF f.j < f.n - f.i - 1
           THEN LET s1 == h_compare(s, f.j, f.j + 1)
                IN  IF Result(s1) > 0
                    THEN Yield(h_swap(s1, f.j, f.j + 1),
                               [f EXCEPT !.pc = "inner_next", !.swapped = TRUE])
                    ELSE Yield(s1, [f EXCEPT !.pc = "inner_next"])
           ELSE Goto(s, [f EXCEPT !.pc = "outer", !.i = @ + 1])
      [] f.pc = "inner_next" ->
           Goto(s, [f EXCEPT !.pc = "inner", !.j = @ + 1])

bubbleSort(s) ==
    LET f == Top(s) IN
    CASE f.pc = "entry" ->
           Goto(s, [fn |-> "bubbleSort", pc |-> "outer",
                    n |-> Len(s.arr), i |-> 0, j |-> 0])
      [] f.pc = "outer" ->
           IF f.i < f.n - 1
           THEN Goto(h_range(s, 0, f.n - f.i - 1, "unsorted"),
                     [f EXCEPT !.pc = "inner", !.j = 0])
           ELSE Return(s, Undefined)
      [] f.pc = "inner" ->
           IF f.j < f.n - f.i - 1
           THEN LET s1 == h_compare(s, f.j, f.j + 1)
                    s2 == IF Result(s1) > 0 THEN h_swap(s1, f.j, f.j + 1) ELSE s1
                IN  Yield(s2, [f EXCEPT !.pc = "inner_next"])
           ELSE Goto(s, [f EXCEPT !.pc = "outer", !.i = @ + 1])
      [] f.pc = "inner_next" ->
           Goto(s, [f EXCEPT !.pc = "inner", !.j = @ + 1])

\* --------------------------------------------------------- Insertion Sort
insertionSort(s) ==
    LET f == Top(s) IN
    CASE f.pc = "entry" ->
           Goto(s, [fn |-> "insertionSort", pc |-> "outer", n |-> Len(s.arr),
                    i |-> 1, key |-> Undefined, j |-> 0,
                    keyVal |-> Undefined, k |-> 0])
      [] f.pc = "outer" ->
           IF f.i < f.n
           THEN LET s1 == h_range(s, 0, f.i, "sorted")
                    s2 == h_read(s1, f.i)
                IN  Goto(s2, [f EXCEPT !.pc = "while", !.key = At(s.arr, f.i),
                                       !.j = f.i - 1])
           ELSE Return(s, Undefined)
      [] f.pc = "while" ->
           IF f.j >= 0
           THEN LET s1 == h_compare(s, f.j, f.i)
                IN  IF Result(s1) > 0
                    THEN Yield(s1, [f EXCEPT !.j = @ - 1])
                    ELSE Goto(s1, [f EXCEPT !.pc = "shift_init"])
           ELSE Goto(s, [f EXCEPT !.pc = "shift_init"])
      [] f.pc = "shift_init" ->
           Goto(h_read(s, f.i),
                [f EXCEPT !.pc = "shift", !.keyVal = At(s.arr, f.i), !.k = f.i])
      [] f.pc = "shift" ->
           IF f.k > f.j + 1
           THEN LET s1 == h_read(s, f.k - 1)
                    s2 == h_write(s1, f.k, At(s.arr, f.k - 1))
                IN  Yield(s2, [f EXCEPT !.pc = "shift_next"])
           ELSE Yield(h_write(s, f.j + 1, f.keyVal),
                      [f EXCEPT !.pc = "outer_next"])
      [] f.pc = "shift_next" ->
           Goto(s, [f EXCEPT !.pc = "shift", !.k = @ - 1])
      [] f.pc = "outer_next" ->
           Goto(s, [f EXCEPT !.pc = "outer", !.i = @ + 1])

\* --------------------------------------------------------- Selection Sort
selectionSort(s) ==
    LET f == Top(s) IN
    CASE f.pc = "entry" ->
           Goto(s, [fn |-> "selectionSort", pc |-> "outer", n |-> Len(s.arr),
                    i |-> 0, minIdx |-> 0, j |-> 0])
      [] f.pc = "outer" ->
           IF f.i < f.n - 1
           THEN Goto(h_range(s, f.i, f.n - 1, "unsorted"),
                     [f EXCEPT !.pc = "inner", !.minIdx = f.i, !.j = f.i + 1])
           ELSE Return(s, Undefined)
      [] f.pc = "inner" ->
           IF f.j < f.n
           THEN LET s1 == h_compare(s, f.j, f.minIdx)
                IN  Yield(s1, [f EXCEPT !.pc = "inner_next",
                                        !.minIdx = IF Result(s1) < 0 THEN f.j ELSE @])
           ELSE Yield(IF f.minIdx # f.i THEN h_swap(s, f.i, f.minIdx) ELSE s,
                      [f EXCEPT !.pc = "outer_next"])
      [] f.pc = "inner_next" ->
           Goto(s, [f EXCEPT !.pc = "inner", !.j = @ + 1])
      [] f.pc = "outer_next" ->
           Goto(s, [f EXCEPT !.pc = "outer", !.i = @ + 1])

\* ------------------------------------------------------------- Quick Sort
\* Mutant: the range handed to quickSortHelper ends at h.length.
quickSort_PastEnd(s) ==
    LET f == Top(s) IN
    CASE f.pc = "entry" ->
           Call(s, [f EXCEPT !.pc = "ret"],
                [fn |-> "quickSortHelper", pc |-> "entry",
                 low |-> 0, high |-> Len(s.arr), pivotIdx |-> 0])
      [] f.pc = "ret" -> Return(s, Undefined)

quickSort(s) ==
    LET f == Top(s) IN
    CASE f.pc = "entry" ->
           Call(s, [f EXCEPT !.pc = "ret"],
                [fn |-> "quickSortHelper", pc |-> "entry",
                 low |-> 0, high |-> Len(s.arr) - 1, pivotIdx |-> 0])
      [] f.pc = "ret" -> Return(s, Undefined)

quickSortHelper(s) ==
    LET f == Top(s) IN
    CASE f.pc = "entry" ->
           IF f.low < f.high
           THEN Call(h_partition(s, f.low, f.high),
                     [f EXCEPT !.pc = "afterPartition"],
                     [fn |-> "partition", pc |-> "entry",
                      low |-> f.low, high |-> f.high, i |-> 0, j |-> 0])
           ELSE Return(s, Undefined)
      [] f.pc = "afterPartition" ->
           Call(s, [f EXCEPT !.pc = "afterLeft", !.pivotIdx = s.ret],
                [fn |-> "quickSortHelper", pc |-> "entry",
                 low |-> f.low, high |-> s.ret - 1, pivotIdx |-> 0])
      [] f.pc = "afterLeft" ->
           Call(s, [f EXCEPT !.pc = "afterRight"],
                [fn |-> "quickSortHelper", pc |-> "entry",
                 low |-> f.pivotIdx + 1, high |-> f.high, pivotIdx |-> 0])
      [] f.pc = "afterRight" -> Return(s, Undefined)

\* Mutant: the index returned is one short of the pivot's, return i.
partition_ReturnsI(s) ==
    LET f == Top(s) IN
    CASE f.pc = "entry" ->
           Goto(h_pivot(s, f.high),
                [f EXCEPT !.pc = "loop", !.i = f.low - 1, !.j = f.low])
      [] f.pc = "loop" ->
           IF f.j < f.high
           THEN LET s1 == h_compare(s, f.j, f.high)
                IN  IF Result(s1) < 0
                    THEN Yield(h_swap(s1, f.i + 1, f.j),
                               [f EXCEPT !.pc = "loop_next", !.i = @ + 1])
                    ELSE Yield(s1, [f EXCEPT !.pc = "loop_next"])
           ELSE Yield(h_swap(s, f.i + 1, f.high), [f EXCEPT !.pc = "ret"])
      [] f.pc = "loop_next" ->
           Goto(s, [f EXCEPT !.pc = "loop", !.j = @ + 1])
      [] f.pc = "ret" -> Return(s, f.i)

\* Mutant: elements equal to the pivot go to the left part, compare <= 0.
partition_NotStrict(s) ==
    LET f == Top(s) IN
    CASE f.pc = "entry" ->
           Goto(h_pivot(s, f.high),
                [f EXCEPT !.pc = "loop", !.i = f.low - 1, !.j = f.low])
      [] f.pc = "loop" ->
           IF f.j < f.high
           THEN LET s1 == h_compare(s, f.j, f.high)
                IN  IF Result(s1) <= 0
                    THEN Yield(h_swap(s1, f.i + 1, f.j),
                               [f EXCEPT !.pc = "loop_next", !.i = @ + 1])
                    ELSE Yield(s1, [f EXCEPT !.pc = "loop_next"])
           ELSE Yield(h_swap(s, f.i + 1, f.high), [f EXCEPT !.pc = "ret"])
      [] f.pc = "loop_next" ->
           Goto(s, [f EXCEPT !.pc = "loop", !.j = @ + 1])
      [] f.pc = "ret" -> Return(s, f.i + 1)

partition(s) ==
    LET f == Top(s) IN
    CASE f.pc = "entry" ->
           Goto(h_pivot(s, f.high),
                [f EXCEPT !.pc = "loop", !.i = f.low - 1, !.j = f.low])
      [] f.pc = "loop" ->
           IF f.j < f.high
           THEN LET s1 == h_compare(s, f.j, f.high)
                IN  IF Result(s1) < 0
                    THEN Yield(h_swap(s1, f.i + 1, f.j),
                               [f EXCEPT !.pc = "loop_next", !.i = @ + 1])
                    ELSE Yield(s1, [f EXCEPT !.pc = "loop_next"])
           ELSE Yield(h_swap(s, f.i + 1, f.high), [f EXCEPT !.pc = "ret"])
      [] f.pc = "loop_next" ->
           Goto(s, [f EXCEPT !.pc = "loop", !.j = @ + 1])
      [] f.pc = "ret" -> Return(s, f.i + 1)

\* ------------------------------------------------------------- Merge Sort
mergeSort(s) ==
    LET f == Top(s) IN
    CASE f.pc = "entry" ->
           Call([s EXCEPT !.aux = [k \in 1..Len(s.arr) |-> Undefined]],
                [f EXCEPT !.pc = "ret"],
                [fn |-> "mergeSortHelper", pc |-> "entry",
                 lo |-> 0, hi |-> Len(s.arr) - 1, mid |-> 0])
      [] f.pc = "ret" -> Return(s, Undefined)

mergeSortHelper(s) ==
    LET f == Top(s) IN
    CASE f.pc = "entry" ->
           IF f.lo >= f.hi
           THEN Return(s, Undefined)
           ELSE Yield(h_range(s, f.lo, f.hi, "divide"),
                      [f EXCEPT !.pc = "afterYield", !.mid = (f.lo + f.hi) \div 2])
      [] f.pc = "afterYield" ->
           Call(s, [f EXCEPT !.pc = "afterLeft"],
                [fn |-> "mergeSortHelper", pc |-> "entry",
                 lo |-> f.lo, hi |-> f.mid, mid |-> 0])
      [] f.pc = "afterLeft" ->
           Call(s, [f EXCEPT !.pc = "afterRight"],
                [fn |-> "mergeSortHelper", pc |-> "entry",
                 lo |-> f.mid + 1, hi |-> f.hi, mid |-> 0])
      [] f.pc = "afterRight" ->
           Call(s, [f EXCEPT !.pc = "afterMerge"],
                [fn |-> "mergeArrays", pc |-> "entry", lo |-> f.lo,
                 mid |-> f.mid, hi |-> f.hi, i |-> 0, j |-> 0, k |-> 0])
      [] f.pc = "afterMerge" -> Return(s, Undefined)

\* for (k = lo; k <= hi; k++) aux[k] = h.read(k), from k on.
RECURSIVE CopyToAux(_, _, _)
CopyToAux(s, k, hi) ==
    IF k > hi THEN s
    ELSE CopyToAux([h_read(s, k) EXCEPT !.aux = Put(@, k, At(s.arr, k))],
                   k + 1, hi)

\* Mutant: of two equal candidates the right one is taken.
mergeArrays_RightOnTie(s) ==
    LET f == Top(s) IN
    CASE f.pc = "entry" ->
           Goto(CopyToAux(h_merge(s, f.lo, f.mid, f.hi), f.lo, f.hi),
                [f EXCEPT !.pc = "loop", !.i = f.lo, !.j = f.mid + 1, !.k = f.lo])
      [] f.pc = "loop" ->
           IF f.k <= f.hi
           THEN IF f.i > f.mid
                THEN Yield(h_write(s, f.k, At(s.aux, f.j)),
                           [f EXCEPT !.pc = "loop_next", !.j = @ + 1])
                ELSE IF f.j > f.hi
                THEN Yield(h_write(s, f.k, At(s.aux, f.i)),
                           [f EXCEPT !.pc = "loop_next", !.i = @ + 1])
                ELSE LET s1 == h_compareValues(s, At(s.aux, f.j), At(s.aux, f.i),
                                               f.j, f.i)
                     IN  IF Result(s1) > 0
                         THEN Yield(h_write(s1, f.k, At(s.aux, f.i)),
                                    [f EXCEPT !.pc = "loop_next", !.i = @ + 1])
                         ELSE Yield(h_write(s1, f.k, At(s.aux, f.j)),
                                    [f EXCEPT !.pc = "loop_next", !.j = @ + 1])
           ELSE Return(s, Undefined)
      [] f.pc = "loop_next" ->
           Goto(s, [f EXCEPT !.pc = "loop", !.k = @ + 1])

\* Mutant: the candidates are compared by index in the live array,
\* h.compare(j, i).
mergeArrays_ComparesLive(s) ==
    LET f == Top(s) IN
    CASE f.pc = "entry" ->
           Goto(CopyToAux(h_merge(s, f.lo, f.mid, f.hi), f.lo, f.hi),
                [f EXCEPT !.pc = "loop", !.i = f.lo, !.j = f.mid + 1, !.k = f.lo])
      [] f.pc = "loop" ->
           IF f.k <= f.hi
           THEN IF f.i > f.mid
                THEN Yield(h_write(s, f.k, At(s.aux, f.j)),
                           [f EXCEPT !.pc = "loop_next", !.j = @ + 1])
                ELSE IF f.j > f.hi
                THEN Yield(h_write(s, f.k, At(s.aux, f.i)),
                           [f EXCEPT !.pc = "loop_next", !.i = @ + 1])
                ELSE LET s1 == h_compare(s, f.j, f.i)
                     IN  IF Result(s1) >= 0
                         THEN Yield(h_write(s1, f.k, At(s.aux, f.i)),
                                    [f EXCEPT !.pc = "loop_next", !.i = @ + 1])
                         ELSE IF Lt(At(s.aux, f.j), At(s.aux, f.i))
                              THEN Yield(h_write(s1, f.k, At(s.aux, f.j)),
                                         [f EXCEPT !.pc = "loop_next", !.j = @ + 1])
                              ELSE Yield(h_write(s1, f.k, At(s.aux, f.i)),
                                         [f EXCEPT !.pc = "loop_next", !.i = @ + 1])
           ELSE Return(s, Undefined)
      [] f.pc = "loop_next" ->
           Goto(s, [f EXCEPT !.pc = "loop", !.k = @ + 1])

mergeArrays(s) ==
    LET f == Top(s) IN
    CASE f.pc = "entry" ->
           Goto(CopyToAux(h_merge(s, f.lo, f.mid, f.hi), f.lo, f.hi),
                [f EXCEPT !.pc = "loop", !.i = f.lo, !.j = f.mid + 1, !.k = f.lo])
      [] f.pc = "loop" ->
           IF f.k <= f.hi
           THEN IF f.i > f.mid
                THEN Yield(h_write(s, f.k, At(s.aux, f.j)),
                           [f EXCEPT !.pc = "loop_next", !.j = @ + 1])
                ELSE IF f.j > f.hi
                THEN Yield(h_write(s, f.k, At(s.aux, f.i)),
                           [f EXCEPT !.pc = "loop_next", !.i = @ + 1])
                ELSE LET s1 == h_compareValues(s, At(s.aux, f.j), At(s.aux, f.i),
                                               f.j, f.i)
                     IN  IF Result(s1) >= 0
                         THEN Yield(h_write(s1, f.k, At(s.aux, f.i)),
                                    [f EXCEPT !.pc = "loop_next", !.i = @ + 1])
                         ELSE IF Lt(At(s.aux, f.j), At(s.aux, f.i))
                              THEN Yield(h_write(s1, f.k, At(s.aux, f.j)),
                                         [f EXCEPT !.pc = "loop_next", !.j = @ + 1])
                              ELSE Yield(h_write(s1, f.k, At(s.aux, f.i)),
                                         [f EXCEPT !.pc = "loop_next", !.i = @ + 1])
           ELSE Return(s, Undefined)
      [] f.pc = "loop_next" ->
           Goto(s, [f EXCEPT !.pc = "loop", !.k = @ + 1])

\* -------------------------------------------------------------- Heap Sort
\* Mutant: the build phase starts one index too low, floor(n / 2) - 2.
heapSort_LateStart(s) ==
    LET f == Top(s) IN
    CASE f.pc = "entry" ->
           Goto(s, [fn |-> "heapSort", pc |-> "build", n |-> Len(s.arr),
                    i |-> (Len(s.arr) \div 2) - 2])
      [] f.pc = "build" ->
           IF f.i >= 0
           THEN Call(s, [f EXCEPT !.pc = "build_next"],
                     [fn |-> "heapify", pc |-> "entry", heapSize |-> f.n,
                      i |-> f.i, largest |-> 0, left |-> 0, right |-> 0])
           ELSE Goto(s, [f EXCEPT !.pc = "extract", !.i = f.n - 1])
      [] f.pc = "build_next" ->
           Goto(s, [f EXCEPT !.pc = "build", !.i = @ - 1])
      [] f.pc = "extract" ->
           IF f.i > 0
           THEN Yield(h_swap(s, 0, f.i), [f EXCEPT !.pc = "extract_heapify"])
           ELSE Return(s, Undefined)
      [] f.pc = "extract_heapify" ->
           Call(s, [f EXCEPT !.pc = "extract_next"],
                [fn |-> "heapify", pc |-> "entry", heapSize |-> f.i,
                 i |-> 0, largest |-> 0, left |-> 0, right |-> 0])
      [] f.pc = "extract_next" ->
           Goto(s, [f EXCEPT !.pc = "extract", !.i = @ - 1])

heapSort(s) ==
    LET f == Top(s) IN
    CASE f.pc = "entry" ->
           Goto(s, [fn |-> "heapSort", pc |-> "build", n |-> Len(s.arr),
                    i |-> (Len(s.arr) \div 2) - 1])
      [] f.pc = "build" ->
           IF f.i >= 0
           THEN Call(s, [f EXCEPT !.pc = "build_next"],
                     [fn |-> "heapify", pc |-> "entry", heapSize |-> f.n,
                      i |-> f.i, largest |-> 0, left |-> 0, right |-> 0])
           ELSE Goto(s, [f EXCEPT !.pc = "extract", !.i = f.n - 1])
      [] f.pc = "build_next" ->
           Goto(s, [f EXCEPT !.pc = "build", !.i = @ - 1])
      [] f.pc = "extract" ->
           IF f.i > 0
           THEN Yield(h_swap(s, 0, f.i), [f EXCEPT !.pc = "extract_heapify"])
           ELSE Return(s, Undefined)
      [] f.pc = "extract_heapify" ->
           Call(s, [f EXCEPT !.pc = "extract_next"],
                [fn |-> "heapify", pc |-> "entry", heapSize |-> f.i,
                 i |-> 0, largest |-> 0, left |-> 0, right |-> 0])
      [] f.pc = "extract_next" ->
           Goto(s, [f EXCEPT !.pc = "extract", !.i = @ - 1])

\* heapify without the suspension after its first comparison.
heapify_OneYield(s) ==
    LET f == Top(s)
        left == 2 * f.i + 1
        right == 2 * f.i + 2
    IN
    CASE f.pc = "entry" ->
           IF left < f.heapSize
           THEN LET s1 == h_compare(s, left, f.i)
                IN  Goto(s1, [f EXCEPT !.pc = "second", !.left = left,
                                       !.right = right,
                                       !.largest = IF Result(s1) > 0 THEN left ELSE f.i])
           ELSE Goto(s, [f EXCEPT !.pc = "second", !.left = left,
                                  !.right = right, !.largest = f.i])
      [] f.pc = "second" ->
           IF f.right < f.heapSize
           THEN LET s1 == h_compare(s, f.right, f.largest)
                IN  Yield(s1, [f EXCEPT !.pc = "third",
                                        !.largest = IF Result(s1) > 0 THEN f.right ELSE @])
           ELSE Yield(s, [f EXCEPT !.pc = "third"])
      [] f.pc = "third" ->
           IF f.largest # f.i
           THEN Call(h_swap(s, f.i, f.largest), [f EXCEPT !.pc = "ret"],
                     [fn |-> "heapify", pc |-> "entry", heapSize |-> f.heapSize,
                      i |-> f.largest, largest |-> 0, left |-> 0, right |-> 0])
           ELSE Return(s, Undefined)
      [] f.pc = "ret" -> Return(s, Undefined)

heapify(s) ==
    LET f == Top(s)
        left == 2 * f.i + 1
        right == 2 * f.i + 2
    IN
    CASE f.pc = "entry" ->
           IF left < f.heapSize
           THEN LET s1 == h_compare(s, left, f.i)
                IN  Yield(s1, [f EXCEPT !.pc = "second", !.left = left,
                                        !.right = right,
                                        !.largest = IF Result(s1) > 0 THEN left ELSE f.i])
           ELSE Yield(s, [f EXCEPT !.pc = "second", !.left = left,
                                   !.right = right, !.largest = f.i])
      [] f.pc = "second" ->
           IF f.right < f.heapSize
           THEN LET s1 == h_compare(s, f.right, f.largest)
                IN  Yield(s1, [f EXCEPT !.pc = "third",
                                        !.largest = IF Result(s1) > 0 THEN f.right ELSE @])
           ELSE Yield(s, [f EXCEPT !.pc = "third"])
      [] f.pc = "third" ->
           IF f.largest # f.i
           THEN Call(h_swap(s, f.i, f.largest), [f EXCEPT !.pc = "ret"],
                     [fn |-> "heapify", pc |-> "entry", heapSize |-> f.heapSize,
                      i |-> f.largest, largest |-> 0, left |-> 0, right |-> 0])
           ELSE Return(s, Undefined)
      [] f.pc = "ret" -> Return(s, Undefined)

\* ------------------------------------------------------- generator.next()
\* One block of the innermost frame.
Block(s) ==
    LET fn == Top(s).fn IN
    CASE fn = "bubbleSort" -> bubbleSort(s)
      [] fn = "insertionSort" -> insertionSort(s)
      [] fn = "selectionSort" -> selectionSort(s)
      [] fn = "quickSort" -> quickSort(s)
      [] fn = "quickSortHelper" -> quickSortHelper(s)
      [] fn = "partition" -> partition(s)
      [] fn = "mergeSort" -> mergeSort(s)
      [] fn = "mergeSortHelper" -> mergeSortHelper(s)
      [] fn = "mergeArrays" -> mergeArrays(s)
      [] fn = "heapSort" -> heapSort(s)
      [] fn = "heapify" -> heapify(s)

RECURSIVE Exec(_)
Exec(s) == IF s.st # "run" THEN s ELSE Exec(Block(s))

\* generator.next(): run from the suspension point to the next yield, or to
\* the end of the generator function (st = "done").  A generator that has ended (no frame is left) reports done again.
GenNext(s) ==
    IF s.stk = <<>> THEN [s EXCEPT !.st = "done"] ELSE Exec([s EXCEPT !.st = "run"])

\* ------------------------------------------------------------------ state
VARIABLES
    eventId,          \* worker: id of the next event
    currentArray,     \* worker: the working array of the run
    generator,        \* worker: the algorithm unit, or null
    isPaused,         \* worker
    isRunning,        \* worker
    eventsPerSecond,  \* worker: the target rate
    timers,           \* number of pending setTimeout(runLoop, delayMs) callbacks
    out,              \* messages posted since the last start or reset command
    algorithm,        \* client: the registered algorithm its start commands name
    array,            \* client: the array its start commands carry
    controller        \* playback controller: its state, worker and message ports

vars == <<eventId, currentArray, generator, isPaused, isRunning,
          eventsPerSecond, timers, out, algorithm, array, controller>>

null == [null |-> TRUE]

\* createPlaybackController(): no worker yet, state idle, speed 100;
\* toWorker holds the commands posted to the worker and not yet handled,
\* toController the worker's messages not yet handled by worker.onmessage.
NewController ==
    [state |-> "idle", worker |-> FALSE, speed |-> 100,
     toWorker |-> <<>>, toController |-> <<>>]

\* Rates the client asks for: one and four generator steps per tick.
Speeds == {60, 200}

\* Rates a setSpeed command may carry: those, and an invalid one.
Rates == Speeds \cup {0}

\* Arrays the client passes to the worker.
RunInputs ==
    {<<>>, <<1>>, <<2, 1>>, <<1, 2, 3>>, <<3, 1, 2>>, <<2, 1, 2>>, <<3, 2, 1>>}

\* The worker's state as one record.
W ==
    [eventId |-> eventId, currentArray |-> currentArray, generator |-> generator,
     isPaused |-> isPaused, isRunning |-> isRunning,
     eventsPerSecond |-> eventsPerSecond, timers |-> timers, out |-> out]

Becomes(w) ==
    /\ eventId' = w.eventId
    /\ currentArray' = w.currentArray
    /\ generator' = w.generator
    /\ isPaused' = w.isPaused
    /\ isRunning' = w.isRunning
    /\ eventsPerSecond' = w.eventsPerSecond
    /\ timers' = w.timers
    /\ out' = w.out

\* createHelpers(currentArray, emit) and sortFn(helpers): a unit suspended at
\* the start of its generator function, its helpers closing over the array
\* object currentArray refers to (detached: currentArray has since been
\* re-assigned to another object).
NewGenerator(name, a) ==
    [stk |-> <<Entry(sortFn(name))>>, aux |-> <<>>, arr |-> a, detached |-> FALSE]

\* The machine state generator.next() acts on.
Machine(w) ==
    [stk |-> w.generator.stk, aux |-> w.generator.aux, arr |-> w.generator.arr,
     eventId |-> w.eventId, out |-> w.out, ret |-> Undefined, st |-> "yield"]

\* Mutant: start refills the one array object in place of making a copy,
\* so that the helpers of an earlier unit write to the working array.
Absorb_SharedArray(w, s) ==
    [w EXCEPT !.generator = [@ EXCEPT !.stk = s.stk, !.aux = s.aux, !.arr = s.arr],
              !.currentArray = s.arr,
              !.eventId = s.eventId,
              !.out = s.out]

\* The worker after generator.next() left the machine in state s.
Absorb(w, s) ==
    [w EXCEPT !.generator = [@ EXCEPT !.stk = s.stk, !.aux = s.aux, !.arr = s.arr],
              !.currentArray = IF w.generator.detached THEN @ ELSE s.arr,
              !.eventId = s.eventId,
              !.out = s.out]

\* Mutant: the complete message is posted before the done event is emitted.
finish_CompleteFirst(w) ==
    LET w1 == [w EXCEPT !.out = Append(@, [type |-> "complete",
                                           payload |-> w.currentArray])]
    IN  [emit(w1, [type |-> "done"]) EXCEPT !.isRunning = FALSE,
                                            !.generator = null]

finish(w) ==
    LET w1 == emit(w, [type |-> "done"])
    IN  [w1 EXCEPT !.isRunning = FALSE,
                   !.generator = null,
                   !.out = Append(@, [type |-> "complete",
                                      payload |-> w1.currentArray])]

\* Math.ceil(x / 60)
CeilDiv60(x) == -((-x) \div 60)

eventsPerFrame(w) ==
    IF CeilDiv60(w.eventsPerSecond) > 1 THEN CeilDiv60(w.eventsPerSecond) ELSE 1

\* The while loop of runLoop, entered with the given count, and the
\* setTimeout after it.
RECURSIVE Drain(_, _)
Drain(w, count) ==
    IF ~w.isPaused /\ w.isRunning /\ count < eventsPerFrame(w)
    THEN LET s == GenNext(Machine(w))
         IN  IF s.st = "done"
             THEN finish(Absorb(w, s))
             ELSE Drain(Absorb(w, s), count + 1)
    ELSE IF ~w.isPaused /\ w.isRunning
         THEN [w EXCEPT !.timers = @ + 1]
         ELSE w

\* Mutants of runLoop.  The first never arms a timer after the loop; the
\* second does not consult isPaused, neither on entry nor in the loop.
RECURSIVE Drain_NoTimer(_, _)
Drain_NoTimer(w, count) ==
    IF ~w.isPaused /\ w.isRunning /\ count < eventsPerFrame(w)
    THEN LET s == GenNext(Machine(w))
         IN  IF s.st = "done"
             THEN finish(Absorb(w, s))
             ELSE Drain_NoTimer(Absorb(w, s), count + 1)
    ELSE w

runLoop_NoTimer(w) ==
    IF w.generator = null \/ ~w.isRunning \/ w.isPaused THEN w
    ELSE Drain_NoTimer(w, 0)

RECURSIVE Drain_IgnoresPause(_, _)
Drain_IgnoresPause(w, count) ==
    IF w.isRunning /\ count < eventsPerFrame(w)
    THEN LET s == GenNext(Machine(w))
         IN  IF s.st = "done"
             THEN finish(Absorb(w, s))
             ELSE Drain_IgnoresPause(Absorb(w, s), count + 1)
    ELSE IF w.isRunning
         THEN [w EXCEPT !.timers = @ + 1]
         ELSE w

runLoop_IgnoresPause(w) ==
    IF w.generator = null \/ ~w.isRunning THEN w ELSE Drain_IgnoresPause(w, 0)

runLoop(w) ==
    IF w.generator = null \/ ~w.isRunning \/ w.isPaused THEN w ELSE Drain(w, 0)

\* ----------------------------------------------------- self.onmessage
\* Mutant: start does not reset the event counter.
onStart_KeepsCounter(w, name, a, speed) ==
    LET w1 == [w EXCEPT !.currentArray = a,
                        !.generator = IF @ = null THEN @
                                      ELSE [@ EXCEPT !.detached = TRUE],
                        !.isPaused = FALSE,
                        !.isRunning = TRUE,
                        !.eventsPerSecond = IF speed = 0 THEN 200 ELSE speed,
                        !.out = <<>>]
        w2 == emit(w1, [type |-> "start", algorithmName |-> name,
                        arrayLength |-> Len(a)])
    IN  IF name \notin algorithms
        THEN [w2 EXCEPT !.out = Append(@, [type |-> "error", payload |-> name])]
        ELSE runLoop([w2 EXCEPT !.generator = NewGenerator(name, a)])

onStart(w, name, a, speed) ==
    LET w1 == [w EXCEPT !.currentArray = a,
                        !.generator = IF @ = null THEN @
                                      ELSE [@ EXCEPT !.detached = TRUE],
                        !.eventId = 0,
                        !.isPaused = FALSE,
                        !.isRunning = TRUE,
                        !.eventsPerSecond = IF speed = 0 THEN 200 ELSE speed,
                        !.out = <<>>]
        w2 == emit(w1, [type |-> "start", algorithmName |-> name,
                        arrayLength |-> Len(a)])
    IN  IF name \notin algorithms
        THEN [w2 EXCEPT !.out = Append(@, [type |-> "error", payload |-> name])]
        ELSE runLoop([w2 EXCEPT !.generator = NewGenerator(name, a)])

\* Mutant: step drains a batch, as a tick of the drain loop does.
onStep_Batch(w) ==
    IF w.generator # null /\ w.isPaused
    THEN [Drain([w EXCEPT !.isPaused = FALSE], 0) EXCEPT !.isPaused = TRUE,
                                                         !.timers = w.timers]
    ELSE w

\* Mutant: step does not ask whether the run is paused.
onStep_Unguarded(w) ==
    IF w.generator # null
    THEN LET s == GenNext(Machine(w))
         IN  IF s.st = "done" THEN finish(Absorb(w, s)) ELSE Absorb(w, s)
    ELSE w

\* Mutant: step finishes the run whatever generator.next() reports.
onStep_AlwaysFinish(w) ==
    IF w.generator # null /\ w.isPaused
    THEN finish(Absorb(w, GenNext(Machine(w))))
    ELSE w

onStep(w) ==
    IF w.generator # null /\ w.isPaused
    THEN LET s == GenNext(Machine(w))
         IN  IF s.st = "done" THEN finish(Absorb(w, s)) ELSE Absorb(w, s)
    ELSE w

onPause(w) == [w EXCEPT !.isPaused = TRUE]

onResume(w) ==
    LET w1 == [w EXCEPT !.isPaused = FALSE]
    IN  IF w1.isRunning THEN runLoop(w1) ELSE w1

\* Mutant: reset clears the flags and the counter but keeps the unit.
onReset_KeepsUnit(w) ==
    [w EXCEPT !.isRunning = FALSE,
              !.isPaused = FALSE,
              !.eventId = 0,
              !.out = <<[type |-> "reset"]>>]

onReset(w) ==
    [w EXCEPT !.generator = null,
              !.isRunning = FALSE,
              !.isPaused = FALSE,
              !.eventId = 0,
              !.out = <<[type |-> "reset"]>>]

\* Mutant: setSpeed drains a batch at the new rate at once.
onSetSpeed_RunsLoop(w, rate) == runLoop([w EXCEPT !.eventsPerSecond = rate])

onSetSpeed(w, rate) == [w EXCEPT !.eventsPerSecond = rate]

\* ---------------------------------------------------------------- actions
Client == UNCHANGED <<algorithm, array, controller>>

Start(name, speed) ==
    LET w == onStart(W, name, array, speed)
    IN  /\ w.timers <= MaxTimers
        /\ Becomes(w)
        /\ Client

Step == Becomes(onStep(W)) /\ Client

Pause == Becomes(onPause(W)) /\ Client

Resume ==
    LET w == onResume(W)
    IN  /\ w.timers <= MaxTimers
        /\ Becomes(w)
        /\ Client

Reset == Becomes(onReset(W)) /\ Client

SetSpeed(rate) == Becomes(onSetSpeed(W, rate)) /\ Client

\* A pending timer fires: runLoop is called.
Tick ==
    /\ timers > 0
    /\ Becomes(runLoop([W EXCEPT !.timers = @ - 1]))
    /\ Client

Init ==
    /\ eventId = 0
    /\ currentArray = <<>>
    /\ generator = null
    /\ isPaused = FALSE
    /\ isRunning = FALSE
    /\ eventsPerSecond = 200
    /\ timers = 0
    /\ out = <<>>
    /\ algorithm \in algorithms
    /\ array \in RunInputs
    /\ controller = NewController

Next ==
    \/ \E name \in {algorithm, UnknownAlgorithm}, speed \in Speeds \cup {0} :
          Start(name, speed)
    \/ Step
    \/ Pause
    \/ Resume
    \/ Reset
    \/ \E rate \in Rates : SetSpeed(rate)
    \/ Tick

Spec == Init /\ [][Next]_vars

\* ------------------------------------- a single run, with fair timers
\* The first start of a worker, naming a registered algorithm.
StartRun(speed) == out = <<>> /\ Start(algorithm, speed)

LiveNext ==
    \/ \E speed \in Speeds \cup {0} : StartRun(speed)
    \/ Step
    \/ Pause
    \/ Resume
    \/ \E rate \in Rates : SetSpeed(rate)
    \/ Tick

\* Every armed timer fires eventually: weak fairness of Tick.  A timer can
\* fire exactly when one is pending, and its firing always changes the
\* state, so ENABLED <<Tick>>_vars is timers > 0 and WF_vars(Tick) is the
\* formula below.
TickFairness == []<>(timers = 0) \/ []<><<Tick>>_vars

SpecLive == Init /\ [][LiveNext]_vars /\ TickFairness

\* ------------------------------------------------- a unit that throws
\* generator.next() throws instead of returning (the engine raises a
\* RangeError when the chain of yield* frames a resumption descends is
\* deeper than its stack: Quick Sort nests one quickSortHelper per element
\* of a sorted input).  The generator is closed by the exception.  Neither
\* runLoop nor the step handler has a try block: the exception leaves the
\* handler, nothing after the call is executed and nothing is posted.
Throws(w) == [w EXCEPT !.generator = [@ EXCEPT !.stk = <<>>]]

\* A pending timer fires and the first generator.next() of runLoop throws.
TickThrows ==
    /\ timers > 0
    /\ generator # null /\ isRunning /\ ~isPaused
    /\ generator.stk # <<>>
    /\ Becomes(Throws([W EXCEPT !.timers = @ - 1]))
    /\ Client

\* The generator.next() of the step handler throws.
StepThrows ==
    /\ generator # null /\ isPaused
    /\ generator.stk # <<>>
    /\ Becomes(Throws(W))
    /\ Client

ThrowNext == Next \/ TickThrows \/ StepThrows

SpecThrow == Init /\ [][ThrowNext]_vars

\* ------------------------------------------- a unit driven to exhaustion
\* helpers = createHelpers(array copy, emit); unit = sortFn(helpers); then
\* unit.next() until it reports done.
UnitInit ==
    /\ algorithm \in algorithms
    /\ array \in Arrays
    /\ eventId = 0
    /\ currentArray = array
    /\ generator = NewGenerator(algorithm, array)
    /\ isPaused = FALSE
    /\ isRunning = FALSE
    /\ eventsPerSecond = 200
    /\ timers = 0
    /\ out = <<>>
    /\ controller = NewController

\* One generator.next() that reaches a yield.
Advance ==
    /\ generator # null
    /\ LET s == GenNext(Machine(W))
       IN  s.st = "yield" /\ Becomes(Absorb(W, s))
    /\ Client

\* The generator.next() that reports done; the unit is dropped.
Exhaust ==
    /\ generator # null
    /\ LET s == GenNext(Machine(W))
       IN  s.st = "done" /\ Becomes([Absorb(W, s) EXCEPT !.generator = null])
    /\ Client

UnitNext == Advance \/ Exhaust

SpecUnit == UnitInit /\ [][UnitNext]_vars

\* ------------------------------- Merge Sort on elements that carry markers
\* The arrays of Arrays, each element marked with its position in the input.
TaggedArrays ==
    {[p \in 1..Len(a) |-> p * TagBase + a[p]] : a \in Arrays}

StableInit ==
    /\ algorithm = "Merge Sort"
    /\ array \in TaggedArrays
    /\ eventId = 0
    /\ currentArray = array
    /\ generator = NewGenerator(algorithm, array)
    /\ isPaused = FALSE
    /\ isRunning = FALSE
    /\ eventsPerSecond = 200
    /\ timers = 0
    /\ out = <<>>
    /\ controller = NewController

SpecStable == StableInit /\ [][UnitNext]_vars

\* ----------------------------------------------------------------- claims
Sorted(a) == \A p \in 1..(Len(a) - 1) : a[p] <= a[p + 1]

\* C1: for each of the six algorithms and every input of length >= 2, the
\* working array is in non-decreasing order once the unit is exhausted.
C1_SortedAtExhaustion ==
    (generator = null /\ Len(array) >= 2) => Sorted(currentArray)

\* An unsorted input of length >= 2 whose unit has been driven to exhaustion.
C1_Witness ==
    generator = null /\ Len(array) >= 2 /\ ~Sorted(array) /\ Sorted(currentArray)

\* --------------------------------------------------- the consumer's mirror
\* handleEvent of the page: a swap exchanges two slots of the mirrored
\* array, a write stores the value; every other event leaves it alone.
handleEvent(a, event) ==
    IF event.type = "swap"
    THEN Put(Put(a, event.i, At(a, event.j)), event.j, At(a, event.i))
    ELSE IF event.type = "write"
    THEN Put(a, event.index, event.value)
    ELSE a

\* The events among the posted messages, in id order.
Events(msgs) ==
    LET posted == SelectSeq(msgs, LAMBDA m : m.type = "event")
    IN  SortSeq([p \in 1..Len(posted) |-> posted[p].payload],
                LAMBDA e1, e2 : e1.id < e2.id)

RECURSIVE Replay(_, _)
Replay(a, events) ==
    IF events = <<>> THEN a
    ELSE Replay(handleEvent(a, Head(events)), Tail(events))

\* The posted messages are those of a run of a registered algorithm.
RegisteredRun ==
    /\ out # <<>>
    /\ out[1].type = "event"
    /\ out[1].payload.type = "start"
    /\ out[1].payload.algorithmName \in algorithms

Last(msgs) == msgs[Len(msgs)]

Completed == out # <<>> /\ Last(out).type = "complete"

\* C2: replaying the swap and write events of a run, in id order, against a
\* copy of the array passed to start yields the array of the complete message.
C2_ReplayYieldsCompletion ==
    (RegisteredRun /\ Completed) => Replay(array, Events(out)) = Last(out).payload

\* A completed run that changed its array.
C2_Witness ==
    /\ RegisteredRun
    /\ Completed
    /\ Last(out).payload # array
    /\ Replay(array, Events(out)) = Last(out).payload

\* C3: at every suspension point, applying the swap and write events emitted
\* so far, in id order, to a copy of the input yields the working array.
C3_ReplayYieldsWorkingArray ==
    RegisteredRun => Replay(array, Events(out)) = currentArray

\* A run suspended in its middle whose array differs from the input.
C3_Witness ==
    /\ RegisteredRun
    /\ generator # null
    /\ currentArray # array
    /\ Replay(array, Events(out)) = currentArray

\* ------------------------------------------------- the uninterrupted run
\* The worker as constructed (the module-level lets of the worker).
InitialWorker ==
    [eventId |-> 0, currentArray |-> <<>>, generator |-> null,
     isPaused |-> FALSE, isRunning |-> FALSE, eventsPerSecond |-> 200,
     timers |-> 0, out |-> <<>>]

\* The part of the worker's state a run consists of.
RunOf(w) ==
    [eventId |-> w.eventId, currentArray |-> w.currentArray,
     generator |-> w.generator, isRunning |-> w.isRunning, out |-> w.out]

\* The states of the run of w and of all later states the worker is in when
\* its pending timer fires, again and again, until none is pending.
RECURSIVE FireAll(_)
FireAll(w) ==
    <<RunOf(w)>> \o
    (IF w.timers = 0 THEN <<>> ELSE FireAll(runLoop([w EXCEPT !.timers = @ - 1])))

\* The states a fresh worker passes through when it is sent start (at one
\* generator step per tick) and is then left alone: one state per
\* suspension point of the unit, and the completed run as the last.
Uninterrupted ==
    [name \in algorithms, a \in RunInputs |->
        FireAll(onStart(InitialWorker, name, a, 60))]

IsPrefix(s1, s2) == Len(s1) <= Len(s2) /\ SubSeq(s2, 1, Len(s1)) = s1

\* C4: whatever pause, step and resume commands are inserted into a run, the
\* messages posted so far are an initial part of those of the uninterrupted
\* run of the same algorithm and array, and once the run has ended they are
\* exactly those (same events, payloads and ids, same completion array).
C4_SameAsUninterrupted ==
    RegisteredRun =>
        /\ IsPrefix(out, Last(Uninterrupted[algorithm, array]).out)
        /\ ~isRunning => out = Last(Uninterrupted[algorithm, array]).out

\* A run that was stepped to its end while paused.
C4_Witness ==
    /\ RegisteredRun
    /\ Completed
    /\ isPaused
    /\ Len(out) > 6
    /\ out = Last(Uninterrupted[algorithm, array]).out

\* C5: after a start of a registered algorithm, whatever the worker went
\* through before (an aborted run, a reset), the run is at every moment in
\* a state of the fresh, never-interrupted run of the same algorithm and
\* array: same event counter, working array, unit position and posted
\* messages (ids from 0), and the unit has been advanced at least once.
C5_RunAsFresh ==
    RegisteredRun =>
        \E k \in 1..Len(Uninterrupted[algorithm, array]) :
            RunOf(W) = Uninterrupted[algorithm, array][k]

\* A run started over an aborted one: a tick of the aborted run is still
\* pending next to the new run's own.
C5_Witness ==
    /\ RegisteredRun
    /\ isRunning
    /\ ~isPaused
    /\ timers = 2
    /\ \E k \in 1..Len(Uninterrupted[algorithm, array]) :
            RunOf(W) = Uninterrupted[algorithm, array][k]

\* ---------------------------------------------------------- the run state
\* The worker keeps no state variable; its run state is read off its flags:
\* isRunning is set by start and cleared by reset and finish, and of those
\* two only reset clears the event counter.
RunState ==
    IF isRunning THEN (IF isPaused THEN "paused" ELSE "running")
    ELSE IF eventId > 0 THEN "complete" ELSE "idle"

\* C6: a start naming an unknown algorithm posts an error and nothing else,
\* and leaves run state, unit, working array, event counter and pause flag
\* as they were.
C6_UnknownStartChangesNothing ==
    [][\A speed \in Speeds \cup {0} :
          Start(UnknownAlgorithm, speed) =>
              /\ out' = <<[type |-> "error", payload |-> UnknownAlgorithm]>>
              /\ UNCHANGED <<isRunning, isPaused, generator, currentArray,
                             eventId>>]_vars

\* C7: the run state changes only along start -> running, running -pause->
\* paused, paused -resume-> running, paused -step-> paused or complete,
\* reset -> idle, running -exhausted-> complete (a handler whose call of
\* runLoop drains the unit to its end arrives at complete), and running
\* implies a live unit.
C7_Transitions ==
    [][/\ RunState' = "running" => generator' # null
       /\ (\E name \in {algorithm, UnknownAlgorithm}, speed \in Speeds \cup {0} :
              Start(name, speed))
            => RunState' \in {"running", "complete"}
       /\ Pause =>
            \/ RunState = "running" /\ RunState' = "paused"
            \/ RunState' = RunState
       /\ Resume =>
            \/ RunState = "paused" /\ RunState' \in {"running", "complete"}
            \/ RunState = "running" /\ RunState' = "complete"
            \/ RunState' = RunState
       /\ Step =>
            \/ RunState = "paused" /\ RunState' \in {"paused", "complete"}
            \/ RunState' = RunState
       /\ Reset => RunState' = "idle"
       /\ Tick =>
            \/ RunState = "running" /\ RunState' \in {"running", "complete"}
            \/ RunState' = RunState
       /\ (\E rate \in Rates : SetSpeed(rate)) => RunState' = RunState]_vars

IsDone(m) == m.type = "event" /\ m.payload.type = "done"

\* C8: an exhausted unit is never kept; the done event is emitted once, as
\* the last event and with the highest id, and is followed by exactly one
\* complete message, the last message of the run, which carries the working
\* array; the state is then complete.
C8_DoneThenComplete ==
    /\ generator # null => generator.stk # <<>>
    /\ RunState = "complete" <=> Completed
    /\ \A p \in 1..Len(out) :
          /\ IsDone(out[p]) =>
                /\ p = Len(out) - 1
                /\ out[p + 1].type = "complete"
                /\ \A q \in 1..(p - 1) :
                      out[q].type = "event" => out[q].payload.id < out[p].payload.id
          /\ out[p].type = "complete" =>
                /\ p = Len(out)
                /\ p > 1
                /\ IsDone(out[p - 1])
                /\ out[p].payload = currentArray
                /\ RunState = "complete"

\* A run completed by the drain loop after several events.
C8_Witness ==
    /\ Completed
    /\ RunState = "complete"
    /\ ~isPaused
    /\ Len(out) > 6
    /\ IsDone(out[Len(out) - 1])

\* C9: with timers that fire, a run of a registered algorithm that is
\* running (started, or resumed) completes unless it is paused first.
C9_EventuallyComplete ==
    (isRunning /\ ~isPaused) ~> (Completed \/ isPaused)

\* A run completed at one generator step per tick.
C9_Witness ==
    /\ RegisteredRun
    /\ Completed
    /\ ~isPaused
    /\ eventsPerSecond = 60
    /\ Len(out) > 8

\* C10: while isPaused is set, a step of the worker other than resume, step,
\* reset and start (a timer firing, another pause, a setSpeed) neither
\* advances the unit nor emits an event.
C10_NoDrainWhilePaused ==
    [][(isPaused /\ (Tick \/ Pause \/ \E rate \in Rates : SetSpeed(rate)))
          => UNCHANGED <<generator, currentArray, eventId, out>>]_vars

\* A paused run with a live unit whose timer has fired during the pause.
C10_Witness ==
    /\ RegisteredRun
    /\ isRunning
    /\ isPaused
    /\ generator # null
    /\ timers = 0

\* --------------------------------------------------------------- stepping
\* The worker's state after the step under consideration.
RunOfNext ==
    [eventId |-> eventId', currentArray |-> currentArray',
     generator |-> generator', isRunning |-> isRunning', out |-> out']

\* C11: a step processed while the run is paused resumes the unit exactly
\* once, whatever the rate: the run moves from one suspension point of the
\* uninterrupted run to the next one; no tick is scheduled; the state
\* stays paused unless that advance exhausted the unit, and then the run
\* is complete.
C11_StepAdvancesOnce ==
    [][(isPaused /\ isRunning /\ generator # null /\ Step) =>
          /\ UNCHANGED <<timers, eventsPerSecond, isPaused>>
          /\ \/ RunState' = "paused" /\ generator' # null
             \/ RunState' = "complete" /\ generator' = null /\ Completed'
          /\ RegisteredRun =>
                \E k \in 1..(Len(Uninterrupted[algorithm, array]) - 1) :
                   /\ RunOf(W) = Uninterrupted[algorithm, array][k]
                   /\ RunOfNext = Uninterrupted[algorithm, array][k + 1]
                   /\ generator' = null <=>
                         k + 1 = Len(Uninterrupted[algorithm, array])]_vars

\* A paused run at four events per tick standing at a suspension point
\* that the batches of four pass over: a step has taken it there.
C11_Witness ==
    /\ RegisteredRun
    /\ isRunning
    /\ isPaused
    /\ eventsPerSecond = 200
    /\ Len(Uninterrupted[algorithm, array]) > 6
    /\ RunOf(W) = Uninterrupted[algorithm, array][6]

\* ---------------------------------------------------------- void commands
\* C12: a resume received while the run is not paused does nothing: the
\* unit is not advanced, nothing is posted, no tick is scheduled and the
\* run state stays as it is.
C12_ResumeUnpausedIsNoOp ==
    [][(~isPaused /\ Resume) =>
          UNCHANGED <<generator, currentArray, eventId, out, timers,
                      isRunning, isPaused>>]_vars

\* The worker's state after the step under consideration, as one record.
WNext ==
    [eventId |-> eventId', currentArray |-> currentArray',
     generator |-> generator', isPaused |-> isPaused',
     isRunning |-> isRunning', eventsPerSecond |-> eventsPerSecond',
     timers |-> timers', out |-> out']

\* What of the worker's state a later command or timer can depend on: the
\* pause flag is consulted by step and by runLoop, and both want a unit.
Observable(w) == [w EXCEPT !.isPaused = @ /\ w.generator # null]

\* The worker after each command it may receive next, and after a pending
\* timer fires.
AfterNext(w) ==
    [start |-> [name \in {algorithm, UnknownAlgorithm}, speed \in Speeds \cup {0} |->
                   Observable(onStart(w, name, array, speed))],
     step |-> Observable(onStep(w)),
     pause |-> Observable(onPause(w)),
     resume |-> Observable(onResume(w)),
     reset |-> Observable(onReset(w)),
     setSpeed |-> [rate \in Rates |-> Observable(onSetSpeed(w, rate))],
     timer |-> IF w.timers > 0
               THEN Observable(runLoop([w EXCEPT !.timers = @ - 1]))
               ELSE Observable(w)]

\* C13: a pause received when no run is running and a step received when
\* the run is not paused leave run state, unit, working array and event
\* counter as they are, post nothing, and whatever arrives next has the
\* effect it would have had without them.
C13_VoidCommandsAreNoOps ==
    [][((RunState # "running" /\ Pause) \/ (~isPaused /\ Step)) =>
          /\ UNCHANGED <<isRunning, generator, currentArray, eventId, out,
                         timers, eventsPerSecond>>
          /\ RunState' = RunState
          /\ AfterNext(WNext) = AfterNext(W)]_vars

\* A pause has arrived after a reset, with a tick of the discarded run
\* still pending.
C13_Witness ==
    /\ out = <<[type |-> "reset"]>>
    /\ ~isRunning
    /\ isPaused
    /\ timers > 0

\* ------------------------------------------------------------------ reset
\* Nothing but the acknowledgment of a reset has been posted since.
AfterReset == out = <<[type |-> "reset"]>>

\* C14: reset is taken in every state and leaves the worker idle, without a
\* unit, the acknowledgment posted; from then until the next start no
\* command and no timer posts anything or advances a unit.
C14_ResetToIdle ==
    [][/\ Reset =>
            /\ AfterReset'
            /\ generator' = null
            /\ RunState' = "idle"
       /\ (AfterReset /\ (Step \/ Pause \/ Resume \/ Tick \/ Reset
                           \/ \E rate \in Rates : SetSpeed(rate))) =>
            /\ AfterReset'
            /\ generator' = null
            /\ RunState' = "idle"
            /\ UNCHANGED <<currentArray, eventId>>]_vars

\* A run that had changed its array was reset, and no tick is pending.
C14_Witness ==
    /\ AfterReset
    /\ timers = 0
    /\ ~isPaused
    /\ currentArray # array
    /\ currentArray # <<>>

Delivered(msgs) ==
    LET posted == SelectSeq(msgs, LAMBDA m : m.type = "event")
    IN  [p \in 1..Len(posted) |-> posted[p].payload]

\* C16: the events of a run are numbered 0, 1, 2, ... in the order in which
\* they are posted and delivered, the start event being the first, and the
\* counter is the number of events of the run so far, under every
\* interleaving of ticks and steps.
C16_IdsCountFromZero ==
    LET events == Delivered(out) IN
    /\ eventId = Len(events)
    /\ \A p \in 1..Len(events) : events[p].id = p - 1
    /\ events # <<>> => events[1].type = "start"
    /\ \A p \in 2..Len(events) : events[p].type # "start"

\* A paused run of more than six events, two ticks pending.
C16_Witness ==
    /\ RegisteredRun
    /\ isRunning
    /\ isPaused
    /\ timers = 2
    /\ eventId > 6
    /\ Delivered(out)[eventId].id = eventId - 1

\* ------------------------------------------------- start over a live run
\* C17: a start received while a run is running or paused leaves the worker
\* as a reset followed by that start would: the only unit is the new
\* run's, acting on the new run's array, and the prior unit is gone.
C17_StartTearsDown ==
    [][\A name \in {algorithm, UnknownAlgorithm}, speed \in Speeds \cup {0} :
          (isRunning /\ Start(name, speed)) =>
              /\ WNext = onStart(onReset(W), name, array, speed)
              /\ generator' # null => ~generator'.detached]_vars

\* ------------------------------------------------------- a throwing unit
\* C18: when the unit throws while it is advanced, by the drain loop or by
\* a step, the worker posts an error message and is idle afterwards; it is
\* never running with a dead unit.
C18_ThrowReportedAndIdle ==
    [][(TickThrows \/ StepThrows) =>
          /\ out' # <<>> /\ Last(out').type = "error"
          /\ RunState' = "idle"
          /\ ~(isRunning' /\ generator' # null /\ generator'.stk = <<>>)]_vars

\* ---------------------------------------------------------- invalid speed
\* C19: a start whose speed is 0 and a setSpeed whose rate is 0 are
\* answered with an error message and change nothing: no run is started,
\* and rate, unit, working array, counter and flags stay as they were.
C19_InvalidSpeedRejected ==
    [][(Start(algorithm, 0) \/ SetSpeed(0)) =>
          /\ out' # <<>> /\ Last(out').type = "error"
          /\ UNCHANGED <<isRunning, isPaused, generator, currentArray,
                         eventId, eventsPerSecond>>]_vars

\* -------------------------------------------------------------- stability
\* C20: Merge Sort is stable.  Once the unit is exhausted the array holds
\* the elements of the input in order of value, and elements of equal value
\* in the order of their positions in the input; and whenever a merge step
\* compared two equal candidates, the element it wrote is the one of the
\* left subarray.
C20_MergeSortStable ==
    /\ generator = null =>
          /\ Len(currentArray) = Len(array)
          /\ \A p \in 1..Len(currentArray) :
                /\ TagOf(currentArray[p]) \in 1..Len(array)
                /\ currentArray[p] = array[TagOf(currentArray[p])]
          /\ \A p, q \in 1..Len(currentArray) :
                p < q =>
                   \/ ValueOf(currentArray[p]) < ValueOf(currentArray[q])
                   \/ /\ ValueOf(currentArray[p]) = ValueOf(currentArray[q])
                      /\ TagOf(currentArray[p]) < TagOf(currentArray[q])
    /\ \A p \in 1..(Len(out) - 1) :
          (/\ out[p].payload.type = "compare"
           /\ out[p].payload.result = 0
           /\ p + 1 = Len(out)
           /\ generator # null) =>
              /\ Last(out).payload.type = "write"
              /\ Last(out).payload.value = At(generator.aux, out[p].payload.j)
              /\ TagOf(Last(out).payload.value)
                    < TagOf(At(generator.aux, out[p].payload.i))

\* An input whose first two elements are equal and greater than the third,
\* sorted: the third has moved in front of them and they kept their order.
C20_Witness ==
    /\ generator = null
    /\ Len(array) = 3
    /\ ValueOf(array[1]) = ValueOf(array[2])
    /\ ValueOf(array[3]) < ValueOf(array[1])
    /\ currentArray = <<array[3], array[1], array[2]>>

\* ------------------------------------------------------- comparison counts
\* The number of events of the given kind among the posted messages.
Count(msgs, kind) ==
    Len(SelectSeq(msgs, LAMBDA m : m.type = "event" /\ m.payload.type = kind))

\* C21: Bubble Sort run to its end on an array of size n has emitted
\* n * (n - 1) / 2 compare events, whatever the input holds, and the runs
\* of the worker emit that many on each of their inputs.
C21_BubbleCompareCount ==
    /\ (algorithm = "Bubble Sort" /\ generator = null) =>
          2 * Count(out, "compare") = Len(array) * (Len(array) - 1)
    /\ \A a \in RunInputs :
          2 * Count(Last(Uninterrupted["Bubble Sort", a]).out, "compare")
             = Len(a) * (Len(a) - 1)

\* Bubble Sort has been run to its end on a sorted array of four elements:
\* six comparisons, none of which led to a swap.
C21_Witness ==
    /\ algorithm = "Bubble Sort"
    /\ generator = null
    /\ Len(array) = 4
    /\ Sorted(array)
    /\ Count(out, "compare") = 6
    /\ Count(out, "swap") = 0

\* -------------------------------------------------- Quick Sort on [3,1,2]
\* The events of the given kind among the posted messages, in order.
EventsOf(msgs, kind) == SelectSeq(Delivered(msgs), LAMBDA e : e.type = kind)

\* The swap events that put a pivot in its place at the end of a partition
\* of a range ending at index high.
PivotSwaps(msgs, high) ==
    SelectSeq(Delivered(msgs), LAMBDA e : e.type = "swap" /\ e.j = high)

\* C22: in a run of Quick Sort on [3,1,2] the first pivot event marks index
\* 2; the first partition ends by putting the pivot, the value 2, at index
\* 1; the completed run carries [1,2,3] and has emitted 2 compare events.
C22_QuickSortOn312 ==
    (RegisteredRun /\ algorithm = "Quick Sort" /\ array = <<3, 1, 2>>) =>
        /\ EventsOf(out, "pivot") # <<>> => EventsOf(out, "pivot")[1].index = 2
        /\ Count(out, "compare") <= 2
        /\ Completed =>
              /\ Last(out).payload = <<1, 2, 3>>
              /\ Count(out, "compare") = 2
              /\ Count(out, "pivot") = 1
              /\ PivotSwaps(out, 2) # <<>>
              /\ PivotSwaps(out, 2)[1].i = 1
              /\ At(Replay(array, SubSeq(Delivered(out), 1,
                                         PivotSwaps(out, 2)[1].id + 1)), 1) = 2

\* A completed run of Quick Sort on [3,1,2].
C22_Witness ==
    /\ RegisteredRun
    /\ algorithm = "Quick Sort"
    /\ array = <<3, 1, 2>>
    /\ Completed
    /\ Count(out, "compare") = 2
    /\ EventsOf(out, "pivot")[1].index = 2

\* ------------------------------------------------------ observable access
\* The access layer over the working array as it stands.
Layer == [arr |-> currentArray, out |-> out, eventId |-> eventId]

\* The helper call that led to s1 has posted one event of the given kind,
\* and nothing else.
EmittedOne(s1, kind) ==
    /\ Len(s1.out) = Len(out) + 1
    /\ SubSeq(s1.out, 1, Len(out)) = out
    /\ Last(s1.out).type = "event"
    /\ Last(s1.out).payload.type = kind

\* s1 is the layer after a helper call that may not touch the array.
ReadOnly(s1, kind) == EmittedOne(s1, kind) /\ s1.arr = currentArray

\* s1 is the layer after a helper call that changed the array as its event
\* says.
Mutation(s1, kind) ==
    /\ EmittedOne(s1, kind)
    /\ s1.arr = handleEvent(currentArray, Last(s1.out).payload)

\* Every helper emits one event of its kind; compare, compareValues and
\* read leave the array alone; swap and write change it as their event says.
HelpersEmitOne ==
    /\ \A i, j \in 0..(Len(currentArray) - 1) :
          /\ ReadOnly(h_compare(Layer, i, j), "compare")
          /\ Mutation(h_swap(Layer, i, j), "swap")
    /\ \A i \in 0..(Len(currentArray) - 1) :
          /\ ReadOnly(h_read(Layer, i), "read")
          /\ Last(h_read(Layer, i).out).payload
                = [id |-> eventId, type |-> "read", index |-> i,
                   value |-> At(currentArray, i)]
          /\ \A v \in 1..MaxVal : Mutation(h_write(Layer, i, v), "write")
    /\ \A v1, v2 \in 1..MaxVal :
          ReadOnly(h_compareValues(Layer, v1, v2, Len(currentArray) - 1, 0),
                   "compare")

\* The events posted by the step under consideration.
NewEvents ==
    SubSeq(Delivered(out'), Len(Delivered(out)) + 1, Len(Delivered(out')))

\* C23: every helper call emits exactly one event of its kind (each helper
\* is called with every index and value, on every input array and on the
\* arrays of the first resumptions); a resumption of a unit changes the
\* working array only as its swap and write events say; and a slot of the
\* auxiliary buffer is filled only with a value for which a read event was
\* emitted.
C23_EveryAccessObservable ==
    [][(Advance \/ Exhaust) =>
          /\ eventId <= 1 => HelpersEmitOne
          /\ currentArray' = Replay(currentArray, NewEvents)
          /\ generator' # null =>
                \A k \in 0..(Len(currentArray) - 1) :
                   At(generator'.aux, k) # At(generator.aux, k) =>
                      \E p \in 1..Len(NewEvents) :
                         /\ NewEvents[p].type = "read"
                         /\ NewEvents[p].index = k
                         /\ NewEvents[p].value = At(generator'.aux, k)]_vars

\* Merge Sort has copied a range to its buffer and written back to the
\* array.
C23_Witness ==
    /\ algorithm = "Merge Sort"
    /\ generator # null
    /\ currentArray # array
    /\ Count(out, "read") >= 2
    /\ Count(out, "write") >= 1
    /\ \E k \in 0..(Len(array) - 1) : At(generator.aux, k) # Undefined

\* ---------------------------------------------------------- compareValues
\* -1, 0 or 1 as v1 is less than, equal to or greater than v2.
Sign(v1, v2) == IF v1 < v2 THEN -1 ELSE IF v1 = v2 THEN 0 ELSE 1

\* C24: compareValues(v1, v2, i1, i2) emits one event, of the kind and
\* with the fields of the event of compare(i1, i2), carrying i = i1,
\* j = i2 and the sign of v1 - v2 as its result, which it returns; it does
\* not look at the array, whose slots at i1 and i2 may hold other values.
\* The helper is called here with every pair of values and of indices on
\* the array Merge Sort leaves.
C24_CompareValues ==
    (algorithm = "Merge Sort" /\ generator = null) =>
        \A v1, v2 \in 1..MaxVal, i1, i2 \in 0..(MaxLen - 1) :
           LET s1 == h_compareValues(Layer, v1, v2, i1, i2)
               event == Last(s1.out).payload
           IN  /\ EmittedOne(s1, "compare")
               /\ event = [id |-> eventId, type |-> "compare", i |-> i1,
                           j |-> i2, result |-> Sign(v1, v2)]
               /\ Result(s1) = Sign(v1, v2)
               /\ s1.arr = currentArray
               /\ DOMAIN event = DOMAIN Last(h_compare(Layer, i1, i2).out).payload
               /\ Last(h_compareValues([Layer EXCEPT !.arr = <<>>],
                                       v1, v2, i1, i2).out).payload = event

\* Merge Sort has sorted four elements that were not in order: at its end
\* the values at indices 0 and 3 differ from each other, and compareValues
\* is called with equal values for these indices (among others).
C24_Witness ==
    /\ algorithm = "Merge Sort"
    /\ generator = null
    /\ Len(currentArray) = 4
    /\ currentArray # array
    /\ currentArray[1] < currentArray[4]
    /\ Result(h_compareValues(Layer, 2, 2, 0, 3)) = 0

\* -------------------------------------------------- what a compare reports
\* C25: the result of every compare event is the sign of arr[i] - arr[j],
\* where arr is the working array at the moment the event is emitted (the
\* array before the resumption, changed by the swaps and writes emitted in
\* it before the compare) and i, j are the indices the event carries.
C25_CompareReportsArray ==
    [][(Advance \/ Exhaust) =>
          \A p \in 1..Len(NewEvents) :
             NewEvents[p].type = "compare" =>
                LET arr == Replay(currentArray, SubSeq(NewEvents, 1, p - 1))
                IN  NewEvents[p].result
                       = Sign(At(arr, NewEvents[p].i), At(arr, NewEvents[p].j))]_vars

\* ------------------------------------------------- the run's private copy
\* The step under consideration is the processing of a start command: a
\* start leaves a start event as the first message posted, the counter
\* past it, isRunning or a completed run, and isPaused clear; the handler
\* is evaluated only for steps that pass this test.
StartTaken ==
    /\ out' # <<>>
    /\ out'[1].type = "event"
    /\ eventId' > 0
    /\ ~isPaused'
    /\ \E name \in {algorithm, UnknownAlgorithm}, speed \in Speeds \cup {0} :
          Start(name, speed)

\* C26: the array the start command carries is never changed; start makes
\* the working array a copy of it, and from then on the working array
\* changes only when the unit of that run is advanced, and as the swap and
\* write events of that advance say.
C26_PrivateCopy ==
    [][/\ array' = array
       /\ IF StartTaken
          THEN currentArray' = Replay(array, Delivered(out'))
          ELSE currentArray' # currentArray =>
                  /\ generator # null
                  /\ ~generator.detached
                  /\ isRunning
                  /\ IsPrefix(out, out')
                  /\ currentArray' = Replay(currentArray, NewEvents)]_vars

\* A run has sorted its copy and completed; the array of the start command
\* is as unsorted as it was.
C26_Witness ==
    /\ RegisteredRun
    /\ Completed
    /\ ~Sorted(array)
    /\ Sorted(currentArray)
    /\ Last(out).payload = currentArray

\* ------------------------------------------------------------- batch size
\* C27: one tick of the drain loop emits at most max(1, ceil(r / 60))
\* events, r being the target rate when the tick runs.
C27_BatchBoundsEvents ==
    [][Tick => Len(NewEvents) <= eventsPerFrame(W)]_vars

\* ------------------------------------------------------------- rate change
Min(m, n) == IF m < n THEN m ELSE n

\* C28 as stated: a setSpeed leaves the batch size of the tick that is
\* already scheduled as it was.
C28_ScheduledBatchUnchanged ==
    [][\A rate \in Rates :
          (SetSpeed(rate) /\ timers > 0) =>
              eventsPerFrame(WNext) = eventsPerFrame(W)]_vars

\* C28, amended: a setSpeed changes the target rate and nothing else (the
\* unit is not advanced, nothing is posted, run state and pending timers
\* are as before); every tick computes its batch when it runs, from the
\* rate in force then, so the tick that was pending when the command came
\* already resumes the unit max(1, ceil(rate / 60)) times, the new rate's
\* batch, or as many times as the unit has resumptions left.
C28_RateReadAtTick ==
    [][/\ \A rate \in Rates :
            SetSpeed(rate) =>
               /\ eventsPerSecond' = rate
               /\ UNCHANGED <<generator, currentArray, eventId, out,
                              isRunning, isPaused, timers>>
       /\ (Tick /\ RegisteredRun /\ isRunning /\ ~isPaused /\ generator # null) =>
            \E k \in 1..Len(Uninterrupted[algorithm, array]) :
               /\ RunOf(W) = Uninterrupted[algorithm, array][k]
               /\ RunOfNext = Uninterrupted[algorithm, array]
                                 [Min(k + eventsPerFrame(W),
                                      Len(Uninterrupted[algorithm, array]))]]_vars

\* A run started at one resumption per tick stands at its first suspension
\* point, its tick pending, and the rate has been set to four per tick.
C28_Witness ==
    /\ RegisteredRun
    /\ isRunning
    /\ ~isPaused
    /\ timers = 1
    /\ eventsPerSecond = 200
    /\ Len(Uninterrupted[algorithm, array]) > 6
    /\ RunOf(W) = Uninterrupted[algorithm, array][1]

\* ------------------------------------------- work between suspension points
\* The number of events of the given kinds among the events.
Performed(events, kinds) ==
    Len(SelectSeq(events, LAMBDA e : e.type \in kinds))

\* C29: one resumption of a unit, from one suspension point to the next or
\* to the end, emits at most four array-access events (compare, read, write,
\* swap), the most that the straight-line code of one loop iteration
\* performs (insertionSort: read, compare, read, write), whatever the length
\* of the array.
C29_AccessesPerResumptionBounded ==
    [][(Advance \/ Exhaust) =>
          Performed(NewEvents, {"compare", "read", "write", "swap"}) <= 4]_vars

\* C30: one resumption of a unit, from one suspension point to the next or
\* to the end, performs at most one comparison and at most one swap or
\* write.
C30_OneComparisonOneMutation ==
    [][(Advance \/ Exhaust) =>
          /\ Performed(NewEvents, {"compare"}) <= 1
          /\ Performed(NewEvents, {"swap", "write"}) <= 1]_vars

\* A unit is suspended after a resumption that compared two elements and
\* swapped them.
C30_Witness ==
    /\ generator # null
    /\ Len(Delivered(out)) >= 2
    /\ Delivered(out)[Len(Delivered(out)) - 1].type = "compare"
    /\ Delivered(out)[Len(Delivered(out))].type = "swap"

\* ------------------------------------------------- Quick Sort's partition
\* Quick Sort on the arrays up to the bound and on those one element longer,
\* where both parts of a partition can hold two elements.
QuickInit ==
    /\ algorithm = "Quick Sort"
    /\ array \in Arrays \cup [1..(MaxLen + 1) -> 1..MaxVal]
    /\ eventId = 0
    /\ currentArray = array
    /\ generator = NewGenerator(algorithm, array)
    /\ isPaused = FALSE
    /\ isRunning = FALSE
    /\ eventsPerSecond = 200
    /\ timers = 0
    /\ out = <<>>
    /\ controller = NewController

SpecQuick == QuickInit /\ [][UnitNext]_vars

\* The frame at depth d of the suspended unit, the outermost being at 1.
Frame(g, d) == g.stk[Len(g.stk) - d + 1]

\* The array indices an event names.
IndicesOf(e) ==
    CASE e.type \in {"compare", "swap"} -> {e.i, e.j}
      [] e.type \in {"read", "write", "pivot"} -> {e.index}
      [] OTHER -> {}

\* The indices named by the events.
Touched(events) == UNION {IndicesOf(events[n]) : n \in 1..Len(events)}

SortedRange(a, lo, hi) == \A k \in lo..(hi - 1) : At(a, k) <= At(a, k + 1)

\* The array as it was when the partition in progress was entered: the
\* input with the events up to the last partition event applied.
ArrayAtPartition ==
    LET events == Delivered(out)
        n == CHOOSE k \in 1..Len(events) :
                /\ events[k].type = "partition"
                /\ \A m \in (k + 1)..Len(events) : events[m].type # "partition"
    IN  Replay(array, SubSeq(events, 1, n))

\* partition(low, high) is suspended at its last yield and returns next.
PartitionEnds ==
    /\ generator # null
    /\ generator.stk # <<>>
    /\ Top(generator).fn = "partition"
    /\ Top(generator).pc = "ret"

\* The value partition returns when it is resumed from its last yield.
PivotIdx == Block(Machine(W)).ret

PartitionPost ==
    PartitionEnds =>
       LET low == Top(generator).low
           high == Top(generator).high
           before == ArrayAtPartition
       IN  /\ low <= PivotIdx /\ PivotIdx <= high
           /\ At(currentArray, PivotIdx) = At(before, high)
           /\ \A k \in low..(PivotIdx - 1) :
                  At(currentArray, k) < At(currentArray, PivotIdx)
           /\ \A k \in (PivotIdx + 1)..high :
                  At(currentArray, k) >= At(currentArray, PivotIdx)
           /\ Len(currentArray) = Len(before)
           /\ \A k \in 0..(Len(before) - 1) :
                  (k < low \/ k > high) => At(currentArray, k) = At(before, k)

\* The call quickSortHelper(low, high) at depth d is sorting its left part.
SortingLeft(g, d, low, high, pivotIdx) ==
    /\ g # null
    /\ d <= Len(g.stk)
    /\ Frame(g, d).fn = "quickSortHelper"
    /\ Frame(g, d).pc = "afterLeft"
    /\ Frame(g, d).low = low
    /\ Frame(g, d).high = high
    /\ Frame(g, d).pivotIdx = pivotIdx

LeftBeforeRight ==
    generator # null =>
       \A d \in 1..Len(generator.stk) :
          LET f == Frame(generator, d) IN
          (f.fn = "quickSortHelper" /\ f.pc = "afterLeft") =>
             IF SortingLeft(generator', d, f.low, f.high, f.pivotIdx)
             THEN /\ Touched(NewEvents) \subseteq f.low..(f.pivotIdx - 1)
                  /\ \A k \in f.pivotIdx..f.high :
                         At(currentArray', k) = At(currentArray, k)
             ELSE /\ SortedRange(currentArray, f.low, f.pivotIdx - 1)
                  /\ Touched(NewEvents) \cap (f.low..f.pivotIdx) = {}
                  /\ \A k \in f.low..f.pivotIdx :
                         At(currentArray', k) = At(currentArray, k)

\* C31: when partition(low, high) returns p, low <= p <= high, arr[p] is
\* the value that was at index high when the partition began, the elements
\* of low..p-1 are strictly less than it, those of p+1..high are greater
\* than or equal to it, and the elements outside low..high are as they
\* were; while the left part low..p-1 is being sorted no index from p on is
\* named by an event or changed, and when the sorting of the left part is
\* over the left part is sorted, and the step that ends it names and
\* changes no index of low..p.
C31_PartitionThenLeftThenRight ==
    []PartitionPost /\ [][LeftBeforeRight]_vars

\* The right part of a partition of five elements is being sorted, after a
\* left part of two elements.
C31_Witness ==
    /\ generator # null
    /\ \E d \in 1..Len(generator.stk) :
          /\ Frame(generator, d).fn = "quickSortHelper"
          /\ Frame(generator, d).pc = "afterRight"
          /\ Frame(generator, d).pivotIdx - Frame(generator, d).low >= 2
          /\ Frame(generator, d).high - Frame(generator, d).pivotIdx >= 2
          /\ array # currentArray

\* ---------------------------------------------------- Heap Sort's phases
\* arr[parent(k)] >= arr[k] for the indices k from first to size - 1.
HeapFrom(a, first, size) ==
    \A k \in first..(size - 1) : At(a, (k - 1) \div 2) >= At(a, k)

MaxHeap(a, size) == HeapFrom(a, 1, size)

\* heapSort is suspended in a heapify call made at the given point.
HeapSortAt(g, pc) ==
    /\ g # null
    /\ g.stk # <<>>
    /\ Frame(g, 1).fn = "heapSort"
    /\ Frame(g, 1).pc = pc

\* The build phase: the first comparison is made by heapify(n, floor(n/2)-1)
\* and, until heapify(n, i) makes a swap, the subtrees rooted above i are
\* heaps.
BuildBottomUp ==
    /\ (algorithm = "Heap Sort" /\ Len(array) >= 2 /\ Delivered(out) # <<>>) =>
          /\ Delivered(out)[1].type = "compare"
          /\ Delivered(out)[1].j = (Len(array) \div 2) - 1
          /\ Delivered(out)[1].i = 2 * ((Len(array) \div 2) - 1) + 1
    /\ HeapSortAt(generator, "build_next") =>
          LET f == Frame(generator, 1) IN
          /\ f.i >= 0 /\ f.i <= (f.n \div 2) - 1
          /\ Len(generator.stk) = 2 => HeapFrom(currentArray, 2 * f.i + 3, f.n)

\* After the swap of an extraction step the heap has size i and the suffix
\* from i on is sorted and holds the largest values.
Extracted ==
    HeapSortAt(generator, "extract_heapify") =>
       LET f == Frame(generator, 1) IN
       /\ f.i >= 1 /\ f.i <= f.n - 1
       /\ SortedRange(currentArray, f.i, f.n - 1)
       /\ \A k \in 0..(f.i - 1) : At(currentArray, k) <= At(currentArray, f.i)

\* The resumption that ends the build phase, or the sift-down that follows
\* an extraction, starts from a max-heap.
HeapRestored ==
    /\ (HeapSortAt(generator, "build_next") /\ ~HeapSortAt(generator', "build_next")) =>
          MaxHeap(currentArray, Frame(generator, 1).n)
    /\ (/\ HeapSortAt(generator, "extract_next")
        /\ \/ ~HeapSortAt(generator', "extract_next")
           \/ Frame(generator', 1).i # Frame(generator, 1).i) =>
          MaxHeap(currentArray, Frame(generator, 1).i)

\* C32: Heap Sort's first comparison is the one of heapify(n, floor(n/2)-1)
\* and the build phase proceeds bottom-up; when the build phase ends
\* arr[parent(k)] >= arr[k] for every k in 1..n-1; after the swap of each
\* extraction step with heap size i the suffix i..n-1 is sorted and holds
\* the largest n-i values; and when the sift-down that follows is over the
\* prefix 0..i-1 is a max-heap.
C32_HeapPhases ==
    []BuildBottomUp /\ []Extracted /\ [][HeapRestored]_vars

\* The second extraction step of a run on four elements has made its swap.
C32_Witness ==
    /\ HeapSortAt(generator, "extract_heapify")
    /\ Len(generator.stk) = 1
    /\ Len(array) = 4
    /\ Frame(generator, 1).i = 2
    /\ ~Sorted(array)

\* ------------------------------------------------ Selection Sort's passes
\* The position of the range event that opens outer pass i.
PassStart(events, i) ==
    CHOOSE k \in 1..Len(events) : events[k].type = "range" /\ events[k].lo = i

\* C33: a run of Selection Sort on n elements, driven to its end, has in
\* each outer pass i (0 <= i < n-1), after the range event that opens it,
\* exactly n-1-i compare events followed by exactly one swap event that
\* names index i, after which position i holds the minimum of positions
\* i..n-1; the run emits n-1 swap events.
C33_OneSwapPerPass ==
    (algorithm = "Selection Sort" /\ generator = null /\ Len(array) >= 1) =>
       LET events == Delivered(out)
           n == Len(array)
       IN  /\ Performed(events, {"swap"}) = n - 1
           /\ \A i \in 0..(n - 2) :
                 /\ \E k \in 1..Len(events) :
                        events[k].type = "range" /\ events[k].lo = i
                 /\ LET first == PassStart(events, i)
                        last == first + (n - 1 - i) + 1
                    IN  /\ last <= Len(events)
                        /\ \A k \in (first + 1)..(last - 1) :
                               events[k].type = "compare"
                        /\ events[last].type = "swap"
                        /\ events[last].i = i
                        /\ last = Len(events) \/ events[last + 1].type = "range"
                        /\ LET a == Replay(array, SubSeq(events, 1, last))
                           IN  \A k \in i..(n - 1) : At(a, i) <= At(a, k)

\* ------------------------------------------------- Merge Sort's snapshot
\* mergeArrays(lo, mid, hi) is suspended at one of its yields.
MergeInProgress ==
    /\ generator # null
    /\ generator.stk # <<>>
    /\ Top(generator).fn = "mergeArrays"

\* The position of the merge event emitted last.
LastMerge(events) ==
    CHOOSE k \in 1..Len(events) :
       /\ events[k].type = "merge"
       /\ \A m \in (k + 1)..Len(events) : events[m].type # "merge"

\* C34: while a merge of lo..hi is in progress the auxiliary buffer holds,
\* at lo..hi, the array as it was when the merge began; the merge first
\* reads lo..hi in order, before any write; every compare event after that
\* names a right index and a left index of the range and carries the sign
\* of the comparison of the two snapshot values (not of the live array's),
\* every write event carries a value of the snapshot, and the write that
\* follows a compare event carries the candidate that the reported result
\* selects (the left one unless the result is negative).
C34_MergeUsesSnapshot ==
    MergeInProgress =>
       LET f == Top(generator)
           events == Delivered(out)
           m == LastMerge(events)
           snapshot == Replay(array, SubSeq(events, 1, m))
           size == f.hi - f.lo + 1
       IN  /\ events[m].lo = f.lo /\ events[m].mid = f.mid /\ events[m].hi = f.hi
           /\ \A k \in f.lo..f.hi : At(generator.aux, k) = At(snapshot, k)
           /\ Len(events) >= m + size
           /\ \A k \in 1..size :
                 /\ events[m + k].type = "read"
                 /\ events[m + k].index = f.lo + k - 1
                 /\ events[m + k].value = At(snapshot, f.lo + k - 1)
           /\ \A k \in (m + size + 1)..Len(events) :
                 \/ /\ events[k].type = "compare"
                    /\ events[k].i \in (f.mid + 1)..f.hi
                    /\ events[k].j \in f.lo..f.mid
                    /\ events[k].result =
                          Sign(At(snapshot, events[k].i), At(snapshot, events[k].j))
                 \/ /\ events[k].type = "write"
                    /\ events[k].index \in f.lo..f.hi
                    /\ \E src \in f.lo..f.hi : events[k].value = At(snapshot, src)
                    /\ events[k - 1].type = "compare" =>
                          events[k].value =
                             IF events[k - 1].result >= 0
                             THEN At(snapshot, events[k - 1].j)
                             ELSE At(snapshot, events[k - 1].i)

\* The last merge of a run on four elements has overwritten a slot that a
\* later comparison names: the live array and the snapshot differ there.
C34_Witness ==
    /\ MergeInProgress
    /\ Top(generator).lo = 0
    /\ Top(generator).hi = 3
    /\ Delivered(out)[Len(Delivered(out)) - 1].type = "compare"
    /\ At(currentArray, Delivered(out)[Len(Delivered(out)) - 1].j) #
          At(generator.aux, Delivered(out)[Len(Delivered(out)) - 1].j)

\* ------------------------------------------------------- one chain of ticks
\* C35: under every sequence of start, pause, resume, step, reset and
\* setSpeed commands and timer firings at most one setTimeout(runLoop)
\* callback is pending.
C35_OneTickOutstanding == timers <= 1

\* ------------------------------------------------------------ permutations
\* The number of slots of a that hold v.
Occurrences(a, v) == Cardinality({k \in 1..Len(a) : a[k] = v})

\* a and b hold the same values the same number of times.
IsPermutation(a, b) ==
    /\ Len(a) = Len(b)
    /\ \A k \in 1..Len(a) : Occurrences(a, a[k]) = Occurrences(b, a[k])

SwapOnly == {"Bubble Sort", "Selection Sort", "Quick Sort", "Heap Sort"}

\* C36: when a unit is exhausted the working array (the array the worker
\* delivers at completion) is a permutation of the input, for each of the
\* six algorithms and every input; for Bubble, Selection, Quick and Heap
\* Sort the working array is a permutation of the input at every
\* suspension point.
C36_Permutation ==
    /\ generator = null => IsPermutation(currentArray, array)
    /\ algorithm \in SwapOnly => IsPermutation(currentArray, array)

\* Heap Sort has come to the end of a run on four elements that it had to
\* reorder.
C36_Witness ==
    /\ generator = null
    /\ algorithm = "Heap Sort"
    /\ Len(array) = 4
    /\ currentArray # array

\* ------------------------------------------------------------ index range
\* C37: every index that a compare, swap, read, write or pivot event of a
\* run names (the indices passed to compare, compareValues, swap, read,
\* write and pivot) lies in 0..n-1, the working array keeps its length and
\* no undefined value enters it, for each of the six algorithms and every
\* input of length n >= 0.
C37_IndicesInRange ==
    /\ Touched(Delivered(out)) \subseteq 0..(Len(array) - 1)
    /\ Len(currentArray) = Len(array)
    /\ \A k \in 1..Len(currentArray) : currentArray[k] # Undefined

\* A run on four elements has come to its end and its events name every
\* index, the first and the last included.
C37_Witness ==
    /\ generator = null
    /\ Len(array) = 4
    /\ Touched(Delivered(out)) = 0..3
    /\ currentArray # array

\* ------------------------------------------- playback controller and worker
\* Commands the controller may have posted and not yet seen handled, and
\* the length of the queue of worker messages above which the worker is not
\* scheduled.
MaxCommands == 2
MaxMessages == 1

\* The arrays the page hands to the controller.
ControllerInputs == {<<2, 1>>, <<3, 1, 2>>}

\* worker?.postMessage(command)
Post(c, command) ==
    IF c.worker THEN [c EXCEPT !.toWorker = Append(@, command)] ELSE c

\* start: initWorker() ends the worker in use, whose messages are dropped,
\* and makes a new one; the state is running; the start command is posted.
Controller_start(name) ==
    /\ controller' = [controller EXCEPT
                         !.worker = TRUE,
                         !.state = "running",
                         !.toController = <<>>,
                         !.toWorker = <<[type |-> "start", algorithm |-> name,
                                         speed |-> controller.speed]>>]
    /\ Becomes(InitialWorker)
    /\ UNCHANGED <<algorithm, array>>

\* A call of the controller that leaves the worker's own state alone.
Calls(c) ==
    /\ Len(c.toWorker) <= MaxCommands
    /\ controller' = c
    /\ UNCHANGED <<eventId, currentArray, generator, isPaused, isRunning,
                   eventsPerSecond, timers, out, algorithm, array>>

Controller_pause ==
    /\ controller.state = "running"
    /\ Calls(Post([controller EXCEPT !.state = "paused"], [type |-> "pause"]))

Controller_resume ==
    /\ controller.state = "paused"
    /\ Calls(Post([controller EXCEPT !.state = "running"], [type |-> "resume"]))

Controller_step ==
    /\ controller.state = "paused"
    /\ Calls(Post(controller, [type |-> "step"]))

Controller_reset ==
    Calls([Post(controller, [type |-> "reset"]) EXCEPT !.state = "idle"])

Controller_setSpeed(rate) ==
    Calls(Post([controller EXCEPT !.speed = rate],
               [type |-> "setSpeed", payload |-> rate]))

\* self.onmessage of the worker, applied to one command.
self_onmessage(w, command) ==
    CASE command.type = "start" ->
           onStart(w, command.algorithm, array, command.speed)
      [] command.type = "pause" -> onPause(w)
      [] command.type = "resume" -> onResume(w)
      [] command.type = "step" -> onStep(w)
      [] command.type = "reset" -> onReset(w)
      [] command.type = "setSpeed" -> onSetSpeed(w, command.payload)

\* The worker has run a handler or a timer callback that left it as w,
\* where w.out holds the messages the handler posted; fresh tells that the
\* handler was the one of a start or reset command.
Worked(w, fresh, commands) ==
    /\ Len(controller.toController) <= MaxMessages
    /\ w.timers <= MaxTimers
    /\ Becomes([w EXCEPT !.out = IF fresh THEN @ ELSE out \o @])
    /\ controller' = [controller EXCEPT !.toWorker = commands,
                                        !.toController = @ \o w.out]
    /\ UNCHANGED <<algorithm, array>>

\* The worker takes the oldest command posted to it.
Receive ==
    /\ controller.toWorker # <<>>
    /\ Worked(self_onmessage([W EXCEPT !.out = <<>>], Head(controller.toWorker)),
              Head(controller.toWorker).type \in {"start", "reset"},
              Tail(controller.toWorker))

\* A pending timer of the worker fires.
Fire ==
    /\ timers > 0
    /\ Worked(runLoop([W EXCEPT !.timers = @ - 1, !.out = <<>>]), FALSE,
              controller.toWorker)

\* Mutant: a complete message goes to the completion callbacks and leaves
\* the state as it is.
worker_onmessage_KeepsState ==
    /\ controller.toController # <<>>
    /\ controller' =
          [controller EXCEPT
              !.toController = Tail(@),
              !.state = CASE Head(controller.toController).type = "reset" -> "idle"
                          [] OTHER -> @]
    /\ UNCHANGED <<eventId, currentArray, generator, isPaused, isRunning,
                   eventsPerSecond, timers, out, algorithm, array>>

\* worker.onmessage of the controller, applied to the oldest message: an
\* event goes to the event callbacks, complete sets the state and goes to
\* the completion callbacks, reset sets the state, an error is logged.
worker_onmessage ==
    /\ controller.toController # <<>>
    /\ controller' =
          [controller EXCEPT
              !.toController = Tail(@),
              !.state = CASE Head(controller.toController).type = "complete" -> "complete"
                          [] Head(controller.toController).type = "reset" -> "idle"
                          [] OTHER -> @]
    /\ UNCHANGED <<eventId, currentArray, generator, isPaused, isRunning,
                   eventsPerSecond, timers, out, algorithm, array>>

ControllerInit ==
    /\ eventId = 0
    /\ currentArray = <<>>
    /\ generator = null
    /\ isPaused = FALSE
    /\ isRunning = FALSE
    /\ eventsPerSecond = 200
    /\ timers = 0
    /\ out = <<>>
    /\ algorithm \in {"Bubble Sort", "Merge Sort"}
    /\ array \in ControllerInputs
    /\ controller = NewController

ControllerNext ==
    \/ \E name \in {algorithm, UnknownAlgorithm} : Controller_start(name)
    \/ Controller_pause
    \/ Controller_resume
    \/ Controller_step
    \/ Controller_reset
    \/ \E rate \in Rates : Controller_setSpeed(rate)
    \/ Receive
    \/ Fire
    \/ worker_onmessage

SpecController == ControllerInit /\ [][ControllerNext]_vars

\* C38: while the controller's state is idle (reset() has returned and
\* start() has not been called since) worker.onmessage invokes no event
\* callback and no completion callback, and the state stays idle until the
\* next start().
C38_ResetSilencesRun ==
    [][controller.state = "idle" =>
          /\ ~(/\ worker_onmessage
               /\ Head(controller.toController).type \in {"event", "complete"})
          /\ \/ controller'.state = "idle"
             \/ \E name \in {algorithm, UnknownAlgorithm} : Controller_start(name)]_vars

\* No command and no message is in flight between controller and worker.
Quiescent == controller.toWorker = <<>> /\ controller.toController = <<>>

\* C39: whenever nothing is in flight between the controller and a worker
\* it has made, the controller's state is the worker's run state.
C39_StateMirrorsRunState ==
    (controller.worker /\ Quiescent) => controller.state = RunState

\* A run that has emitted events is paused, controller and worker agree on
\* it, and nothing is in flight.
C39_Witness ==
    /\ controller.worker
    /\ Quiescent
    /\ controller.state = "paused"
    /\ generator # null
    /\ eventId > 1

====
